---- MODULE Spec2Model ----
(***************************************************************************)
(* The implementors loader of rustdoc, as generated for the trait          *)
(* parity_scale_codec::codec::Encode:                                      *)
(*   src/implementors/parity_scale_codec/codec/trait.Encode.js             *)
(*                                                                         *)
(*   1  (function() {var implementors = {};                               *)
(*   2  implementors["ink_env"] = [ ...8 descriptors... ];                 *)
(*   3  implementors["ink_primitives"] = [ ...1 descriptor... ];           *)
(*   4  implementors["scale_info"] = [ ...16 descriptors... ];             *)
(*   5  if (window.register_implementors)                                  *)
(*        {window.register_implementors(implementors);}                    *)
(*      else {window.pending_implementors = implementors;}})()             *)
(*                                                                         *)
(* Lines 1-4 are load(): they build the registry. Line 5 is publish().     *)
(*                                                                         *)
(* Representation.                                                         *)
(*  - A JavaScript value is a record [kind, ref]; an object value carries  *)
(*    the index of its object in heap, every other value carries ref 0.    *)
(*  - The registry object is a function from its property names (module    *)
(*    names) to descriptor arrays; property order is not modelled.         *)
(*  - A descriptor is [text, synthetic, types]. A type path string such as *)
(*    "ink_env::types::Hash" is written as the sequence of its segments,   *)
(*    <<"ink_env", "types", "Hash">>; the string is the segments joined by *)
(*    "::".                                                                *)
(*  - A script is the sequence of the assignments between line 1 and the   *)
(*    publish statement: [key, value] for implementors[key] = value.       *)
(*  - hookLog and windowWrites are history variables: every invocation of  *)
(*    window.register_implementors made by the loader, with its argument   *)
(*    list and the contents of the argument at the moment of the call, and *)
(*    every assignment the loader makes to a property of window.           *)
(*    hostReads is the history of the host's reads of the pending slot.    *)
(*                                                                         *)
(* Environment. The script runs in a page: the global window exists. The   *)
(* loader runs to completion; nothing else runs between its statements.    *)
(* A hook function records its call and either returns or throws; it does  *)
(* not touch the registry or the globals. The same page may evaluate a     *)
(* loader script again (a second script element), up to MaxRuns times.     *)
(* The host (the renderer's own script) initializes at most once, while no *)
(* loader is running: it installs its hook and reads the pending slot.     *)
(***************************************************************************)
EXTENDS Integers, Sequences, FiniteSets, TLC

VARIABLES
  pc,                            \* position of the loader: idle, construct, assign, publish, done, threw
  script,                        \* the assignments of the script being executed
  next,                          \* index in script of the next assignment to execute
  implementors,                  \* the local variable implementors of the running loader
  heap,                          \* the objects allocated so far, by reference
  window_register_implementors,  \* the global hook slot
  window_pending_implementors,   \* the global pending slot
  hookLog,                       \* invocations of the hook, oldest first
  windowWrites,                  \* assignments to properties of window, oldest first
  error,                         \* the error the last execution ended with, or "none"
  runs,                          \* number of executions of a loader script started so far
  hostReads                      \* reads of the pending slot by the host, oldest first

vars == <<pc, script, next, implementors, heap, window_register_implementors,
          window_pending_implementors, hookLog, windowWrites, error, runs, hostReads>>

\* How many times a loader script is executed in one process (one page).
MaxRuns == 2

(***************************************************************************)
(* JavaScript values                                                       *)
(***************************************************************************)
Undefined == [kind |-> "undefined", ref |-> 0]
Null == [kind |-> "null", ref |-> 0]
True == [kind |-> "boolean_true", ref |-> 0]
\* A function that records its call and returns.
Function == [kind |-> "function", ref |-> 0]
\* A function that records its call and throws.
ThrowingFunction == [kind |-> "throwing_function", ref |-> 0]
Object(r) == [kind |-> "object", ref |-> r]

\* A presence test in place of ToBoolean: v !== undefined.
TruthyNotUndefined(v) == v.kind # "undefined"

\* ToBoolean, as applied by if (...) to the value of the hook slot.
Truthy(v) == v.kind \notin {"undefined", "null"}

\* IsCallable, as applied by the call expression.
Callable(v) == v.kind \in {"function", "throwing_function"}

\* The values the host may have left in window.register_implementors.
HookValues == {Undefined, Null, Function, ThrowingFunction, True}

\* A value left in the pending slot before this loader runs: a string.
Stale == [kind |-> "string", ref |-> 0]

\* The values window.pending_implementors may hold before the loader runs.
PendingValues == {Undefined, Stale}

\* {}
EmptyObject == [k \in {} |-> <<>>]

\* obj[key] = value
SetProperty(obj, key, value) ==
  [k \in (DOMAIN obj) \cup {key} |-> IF k = key THEN value ELSE obj[k]]

(***************************************************************************)
(* The embedded data of trait.Encode.js                                    *)
(***************************************************************************)
\* line 2: the array literal assigned to implementors["ink_env"].
ink_env_implementors ==
  <<
    [text |-> "impl&lt;T&gt; Encode for <a class=\"struct\" href=\"ink_env/call/utils/struct.Argument.html\" title=\"struct ink_env::call::utils::Argument\">Argument</a>&lt;T&gt; <span class=\"where fmt-newline\">where<br>&nbsp;&nbsp;&nbsp;&nbsp;T: Encode,&nbsp;</span>",
     synthetic |-> FALSE,
     types |-> <<<<"ink_env", "call", "execution_input", "Argument">>>>],
    [text |-> "impl Encode for <a class=\"type\" href=\"ink_env/call/utils/type.EmptyArgumentList.html\" title=\"type ink_env::call::utils::EmptyArgumentList\">EmptyArgumentList</a>",
     synthetic |-> FALSE,
     types |-> <<<<"ink_env", "call", "execution_input", "EmptyArgumentList">>>>],
    [text |-> "impl&lt;'a, Head, Rest&gt; Encode for <a class=\"struct\" href=\"ink_env/call/utils/struct.ArgumentList.html\" title=\"struct ink_env::call::utils::ArgumentList\">ArgumentList</a>&lt;<a class=\"struct\" href=\"ink_env/call/utils/struct.Argument.html\" title=\"struct ink_env::call::utils::Argument\">Argument</a>&lt;Head&gt;, Rest&gt; <span class=\"where fmt-newline\">where<br>&nbsp;&nbsp;&nbsp;&nbsp;Head: Encode,<br>&nbsp;&nbsp;&nbsp;&nbsp;Rest: Encode,&nbsp;</span>",
     synthetic |-> FALSE,
     types |-> <<<<"ink_env", "call", "execution_input", "ArgumentList">>>>],
    [text |-> "impl&lt;Args&gt; Encode for <a class=\"struct\" href=\"ink_env/call/struct.ExecutionInput.html\" title=\"struct ink_env::call::ExecutionInput\">ExecutionInput</a>&lt;Args&gt; <span class=\"where fmt-newline\">where<br>&nbsp;&nbsp;&nbsp;&nbsp;Args: Encode,&nbsp;</span>",
     synthetic |-> FALSE,
     types |-> <<<<"ink_env", "call", "execution_input", "ExecutionInput">>>>],
    [text |-> "impl Encode for <a class=\"struct\" href=\"ink_env/call/struct.Selector.html\" title=\"struct ink_env::call::Selector\">Selector</a>",
     synthetic |-> FALSE,
     types |-> <<<<"ink_env", "call", "selector", "Selector">>>>],
    [text |-> "impl Encode for <a class=\"struct\" href=\"ink_env/test/struct.CallData.html\" title=\"struct ink_env::test::CallData\">CallData</a>",
     synthetic |-> FALSE,
     types |-> <<<<"ink_env", "engine", "off_chain", "call_data", "CallData">>>>],
    [text |-> "impl Encode for <a class=\"struct\" href=\"ink_env/struct.AccountId.html\" title=\"struct ink_env::AccountId\">AccountId</a>",
     synthetic |-> FALSE,
     types |-> <<<<"ink_env", "types", "AccountId">>>>],
    [text |-> "impl Encode for <a class=\"struct\" href=\"ink_env/struct.Hash.html\" title=\"struct ink_env::Hash\">Hash</a>",
     synthetic |-> FALSE,
     types |-> <<<<"ink_env", "types", "Hash">>>>]
  >>

\* The array of line 3 as a generator that lost the type list would emit it.
ink_primitives_implementors_untyped ==
  <<
    [text |-> "impl Encode for <a class=\"struct\" href=\"ink_primitives/struct.Key.html\" title=\"struct ink_primitives::Key\">Key</a>",
     synthetic |-> FALSE,
     types |-> <<>>]
  >>

\* line 3: the array literal assigned to implementors["ink_primitives"].
ink_primitives_implementors ==
  <<
    [text |-> "impl Encode for <a class=\"struct\" href=\"ink_primitives/struct.Key.html\" title=\"struct ink_primitives::Key\">Key</a>",
     synthetic |-> FALSE,
     types |-> <<<<"ink_primitives", "key", "Key">>>>]
  >>

\* line 4: the array literal assigned to implementors["scale_info"].
scale_info_implementors ==
  <<
    [text |-> "impl&lt;T&gt; Encode for <a class=\"struct\" href=\"scale_info/interner/struct.UntrackedSymbol.html\" title=\"struct scale_info::interner::UntrackedSymbol\">UntrackedSymbol</a>&lt;T&gt; <span class=\"where fmt-newline\">where<br>&nbsp;&nbsp;&nbsp;&nbsp;<a class=\"struct\" href=\"scale_info/prelude/marker/struct.PhantomData.html\" title=\"struct scale_info::prelude::marker::PhantomData\">PhantomData</a>&lt;<a class=\"primitive\" href=\"https://doc.rust-lang.org/nightly/std/primitive.fn.html\">fn</a>() -&gt; T&gt;: Encode,<br>&nbsp;&nbsp;&nbsp;&nbsp;<a class=\"struct\" href=\"scale_info/prelude/marker/struct.PhantomData.html\" title=\"struct scale_info::prelude::marker::PhantomData\">PhantomData</a>&lt;<a class=\"primitive\" href=\"https://doc.rust-lang.org/nightly/std/primitive.fn.html\">fn</a>() -&gt; T&gt;: Encode,&nbsp;</span>",
     synthetic |-> FALSE,
     types |-> <<<<"scale_info", "interner", "UntrackedSymbol">>>>],
    [text |-> "impl Encode for <a class=\"struct\" href=\"scale_info/struct.PortableRegistry.html\" title=\"struct scale_info::PortableRegistry\">PortableRegistry</a>",
     synthetic |-> FALSE,
     types |-> <<<<"scale_info", "registry", "PortableRegistry">>>>],
    [text |-> "impl&lt;T:&nbsp;<a class=\"trait\" href=\"scale_info/form/trait.Form.html\" title=\"trait scale_info::form::Form\">Form</a>&gt; Encode for <a class=\"struct\" href=\"scale_info/struct.TypeDefComposite.html\" title=\"struct scale_info::TypeDefComposite\">TypeDefComposite</a>&lt;T&gt; <span class=\"where fmt-newline\">where<br>&nbsp;&nbsp;&nbsp;&nbsp;<a class=\"struct\" href=\"scale_info/prelude/vec/struct.Vec.html\" title=\"struct scale_info::prelude::vec::Vec\">Vec</a>&lt;<a class=\"struct\" href=\"scale_info/struct.Field.html\" title=\"struct scale_info::Field\">Field</a>&lt;T&gt;&gt;: Encode,<br>&nbsp;&nbsp;&nbsp;&nbsp;<a class=\"struct\" href=\"scale_info/prelude/vec/struct.Vec.html\" title=\"struct scale_info::prelude::vec::Vec\">Vec</a>&lt;<a class=\"struct\" href=\"scale_info/struct.Field.html\" title=\"struct scale_info::Field\">Field</a>&lt;T&gt;&gt;: Encode,&nbsp;</span>",
     synthetic |-> FALSE,
     types |-> <<<<"scale_info", "ty", "composite", "TypeDefComposite">>>>],
    [text |-> "impl&lt;T:&nbsp;<a class=\"trait\" href=\"scale_info/form/trait.Form.html\" title=\"trait scale_info::form::Form\">Form</a>&gt; Encode for <a class=\"struct\" href=\"scale_info/struct.Field.html\" title=\"struct scale_info::Field\">Field</a>&lt;T&gt; <span class=\"where fmt-newline\">where<br>&nbsp;&nbsp;&nbsp;&nbsp;<a class=\"enum\" href=\"https://doc.rust-lang.org/nightly/core/option/enum.Option.html\" title=\"enum core::option::Option\">Option</a>&lt;T::<a class=\"associatedtype\" href=\"scale_info/form/trait.Form.html#associatedtype.String\" title=\"type scale_info::form::Form::String\">String</a>&gt;: Encode,<br>&nbsp;&nbsp;&nbsp;&nbsp;<a class=\"enum\" href=\"https://doc.rust-lang.org/nightly/core/option/enum.Option.html\" title=\"enum core::option::Option\">Option</a>&lt;T::<a class=\"associatedtype\" href=\"scale_info/form/trait.Form.html#associatedtype.String\" title=\"type scale_info::form::Form::String\">String</a>&gt;: Encode,<br>&nbsp;&nbsp;&nbsp;&nbsp;T::<a class=\"associatedtype\" href=\"scale_info/form/trait.Form.html#associatedtype.Type\" title=\"type scale_info::form::Form::Type\">Type</a>: Encode,<br>&nbsp;&nbsp;&nbsp;&nbsp;T::<a class=\"associatedtype\" href=\"scale_info/form/trait.Form.html#associatedtype.Type\" title=\"type scale_info::form::Form::Type\">Type</a>: Encode,<br>&nbsp;&nbsp;&nbsp;&nbsp;<a class=\"enum\" href=\"https://doc.rust-lang.org/nightly/core/option/enum.Option.html\" title=\"enum core::option::Option\">Option</a>&lt;T::<a class=\"associatedtype\" href=\"scale_info/form/trait.Form.html#associatedtype.String\" title=\"type scale_info::form::Form::String\">String</a>&gt;: Encode,<br>&nbsp;&nbsp;&nbsp;&nbsp;<a class=\"enum\" href=\"https://doc.rust-lang.org/nightly/core/option/enum.Option.html\" title=\"enum core::option::Option\">Option</a>&lt;T::<a class=\"associatedtype\" href=\"scale_info/form/trait.Form.html#associatedtype.String\" title=\"type scale_info::form::Form::String\">String</a>&gt;: Encode,<br>&nbsp;&nbsp;&nbsp;&nbsp;<a class=\"struct\" href=\"scale_info/prelude/vec/struct.Vec.html\" title=\"struct scale_info::prelude::vec::Vec\">Vec</a>&lt;T::<a class=\"associatedtype\" href=\"scale_info/form/trait.Form.html#associatedtype.String\" title=\"type scale_info::form::Form::String\">String</a>&gt;: Encode,<br>&nbsp;&nbsp;&nbsp;&nbsp;<a class=\"struct\" href=\"scale_info/prelude/vec/struct.Vec.html\" title=\"struct scale_info::prelude::vec::Vec\">Vec</a>&lt;T::<a class=\"associatedtype\" href=\"scale_info/form/trait.Form.html#associatedtype.String\" title=\"type scale_info::form::Form::String\">String</a>&gt;: Encode,&nbsp;</span>",
     synthetic |-> FALSE,
     types |-> <<<<"scale_info", "ty", "fields", "Field">>>>],
    [text |-> "impl&lt;T:&nbsp;<a class=\"trait\" href=\"scale_info/form/trait.Form.html\" title=\"trait scale_info::form::Form\">Form</a>&gt; Encode for <a class=\"struct\" href=\"scale_info/struct.Path.html\" title=\"struct scale_info::Path\">Path</a>&lt;T&gt; <span class=\"where fmt-newline\">where<br>&nbsp;&nbsp;&nbsp;&nbsp;<a class=\"struct\" href=\"scale_info/prelude/vec/struct.Vec.html\" title=\"struct scale_info::prelude::vec::Vec\">Vec</a>&lt;T::<a class=\"associatedtype\" href=\"scale_info/form/trait.Form.html#associatedtype.String\" title=\"type scale_info::form::Form::String\">String</a>&gt;: Encode,<br>&nbsp;&nbsp;&nbsp;&nbsp;<a class=\"struct\" href=\"scale_info/prelude/vec/struct.Vec.html\" title=\"struct scale_info::prelude::vec::Vec\">Vec</a>&lt;T::<a class=\"associatedtype\" href=\"scale_info/form/trait.Form.html#associatedtype.String\" title=\"type scale_info::form::Form::String\">String</a>&gt;: Encode,&nbsp;</span>",
     synthetic |-> FALSE,
     types |-> <<<<"scale_info", "ty", "path", "Path">>>>],
    [text |-> "impl&lt;T:&nbsp;<a class=\"trait\" href=\"scale_info/form/trait.Form.html\" title=\"trait scale_info::form::Form\">Form</a>&gt; Encode for <a class=\"struct\" href=\"scale_info/struct.TypeDefVariant.html\" title=\"struct scale_info::TypeDefVariant\">TypeDefVariant</a>&lt;T&gt; <span class=\"where fmt-newline\">where<br>&nbsp;&nbsp;&nbsp;&nbsp;<a class=\"struct\" href=\"scale_info/prelude/vec/struct.Vec.html\" title=\"struct scale_info::prelude::vec::Vec\">Vec</a>&lt;<a class=\"struct\" href=\"scale_info/struct.Variant.html\" title=\"struct scale_info::Variant\">Variant</a>&lt;T&gt;&gt;: Encode,<br>&nbsp;&nbsp;&nbsp;&nbsp;<a class=\"struct\" href=\"scale_info/prelude/vec/struct.Vec.html\" title=\"struct scale_info::prelude::vec::Vec\">Vec</a>&lt;<a class=\"struct\" href=\"scale_info/struct.Variant.html\" title=\"struct scale_info::Variant\">Variant</a>&lt;T&gt;&gt;: Encode,&nbsp;</span>",
     synthetic |-> FALSE,
     types |-> <<<<"scale_info", "ty", "variant", "TypeDefVariant">>>>],
    [text |-> "impl&lt;T:&nbsp;<a class=\"trait\" href=\"scale_info/form/trait.Form.html\" title=\"trait scale_info::form::Form\">Form</a>&gt; Encode for <a class=\"struct\" href=\"scale_info/struct.Variant.html\" title=\"struct scale_info::Variant\">Variant</a>&lt;T&gt; <span class=\"where fmt-newline\">where<br>&nbsp;&nbsp;&nbsp;&nbsp;T::<a class=\"associatedtype\" href=\"scale_info/form/trait.Form.html#associatedtype.String\" title=\"type scale_info::form::Form::String\">String</a>: Encode,<br>&nbsp;&nbsp;&nbsp;&nbsp;T::<a class=\"associatedtype\" href=\"scale_info/form/trait.Form.html#associatedtype.String\" title=\"type scale_info::form::Form::String\">String</a>: Encode,<br>&nbsp;&nbsp;&nbsp;&nbsp;<a class=\"struct\" href=\"scale_info/prelude/vec/struct.Vec.html\" title=\"struct scale_info::prelude::vec::Vec\">Vec</a>&lt;<a class=\"struct\" href=\"scale_info/struct.Field.html\" title=\"struct scale_info::Field\">Field</a>&lt;T&gt;&gt;: Encode,<br>&nbsp;&nbsp;&nbsp;&nbsp;<a class=\"struct\" href=\"scale_info/prelude/vec/struct.Vec.html\" title=\"struct scale_info::prelude::vec::Vec\">Vec</a>&lt;<a class=\"struct\" href=\"scale_info/struct.Field.html\" title=\"struct scale_info::Field\">Field</a>&lt;T&gt;&gt;: Encode,<br>&nbsp;&nbsp;&nbsp;&nbsp;<a class=\"struct\" href=\"scale_info/prelude/vec/struct.Vec.html\" title=\"struct scale_info::prelude::vec::Vec\">Vec</a>&lt;T::<a class=\"associatedtype\" href=\"scale_info/form/trait.Form.html#associatedtype.String\" title=\"type scale_info::form::Form::String\">String</a>&gt;: Encode,<br>&nbsp;&nbsp;&nbsp;&nbsp;<a class=\"struct\" href=\"scale_info/prelude/vec/struct.Vec.html\" title=\"struct scale_info::prelude::vec::Vec\">Vec</a>&lt;T::<a class=\"associatedtype\" href=\"scale_info/form/trait.Form.html#associatedtype.String\" title=\"type scale_info::form::Form::String\">String</a>&gt;: Encode,&nbsp;</span>",
     synthetic |-> FALSE,
     types |-> <<<<"scale_info", "ty", "variant", "Variant">>>>],
    [text |-> "impl&lt;T:&nbsp;<a class=\"trait\" href=\"scale_info/form/trait.Form.html\" title=\"trait scale_info::form::Form\">Form</a>&gt; Encode for <a class=\"struct\" href=\"scale_info/struct.Type.html\" title=\"struct scale_info::Type\">Type</a>&lt;T&gt; <span class=\"where fmt-newline\">where<br>&nbsp;&nbsp;&nbsp;&nbsp;<a class=\"struct\" href=\"scale_info/struct.Path.html\" title=\"struct scale_info::Path\">Path</a>&lt;T&gt;: Encode,<br>&nbsp;&nbsp;&nbsp;&nbsp;<a class=\"struct\" href=\"scale_info/struct.Path.html\" title=\"struct scale_info::Path\">Path</a>&lt;T&gt;: Encode,<br>&nbsp;&nbsp;&nbsp;&nbsp;<a class=\"struct\" href=\"scale_info/prelude/vec/struct.Vec.html\" title=\"struct scale_info::prelude::vec::Vec\">Vec</a>&lt;<a class=\"struct\" href=\"scale_info/struct.TypeParameter.html\" title=\"struct scale_info::TypeParameter\">TypeParameter</a>&lt;T&gt;&gt;: Encode,<br>&nbsp;&nbsp;&nbsp;&nbsp;<a class=\"struct\" href=\"scale_info/prelude/vec/struct.Vec.html\" title=\"struct scale_info::prelude::vec::Vec\">Vec</a>&lt;<a class=\"struct\" href=\"scale_info/struct.TypeParameter.html\" title=\"struct scale_info::TypeParameter\">TypeParameter</a>&lt;T&gt;&gt;: Encode,<br>&nbsp;&nbsp;&nbsp;&nbsp;<a class=\"enum\" href=\"scale_info/enum.TypeDef.html\" title=\"enum scale_info::TypeDef\">TypeDef</a>&lt;T&gt;: Encode,<br>&nbsp;&nbsp;&nbsp;&nbsp;<a class=\"enum\" href=\"scale_info/enum.TypeDef.html\" title=\"enum scale_info::TypeDef\">TypeDef</a>&lt;T&gt;: Encode,<br>&nbsp;&nbsp;&nbsp;&nbsp;<a class=\"struct\" href=\"scale_info/prelude/vec/struct.Vec.html\" title=\"struct scale_info::prelude::vec::Vec\">Vec</a>&lt;T::<a class=\"associatedtype\" href=\"scale_info/form/trait.Form.html#associatedtype.String\" title=\"type scale_info::form::Form::String\">String</a>&gt;: Encode,<br>&nbsp;&nbsp;&nbsp;&nbsp;<a class=\"struct\" href=\"scale_info/prelude/vec/struct.Vec.html\" title=\"struct scale_info::prelude::vec::Vec\">Vec</a>&lt;T::<a class=\"associatedtype\" href=\"scale_info/form/trait.Form.html#associatedtype.String\" title=\"type scale_info::form::Form::String\">String</a>&gt;: Encode,&nbsp;</span>",
     synthetic |-> FALSE,
     types |-> <<<<"scale_info", "ty", "Type">>>>],
    [text |-> "impl&lt;T:&nbsp;<a class=\"trait\" href=\"scale_info/form/trait.Form.html\" title=\"trait scale_info::form::Form\">Form</a>&gt; Encode for <a class=\"struct\" href=\"scale_info/struct.TypeParameter.html\" title=\"struct scale_info::TypeParameter\">TypeParameter</a>&lt;T&gt; <span class=\"where fmt-newline\">where<br>&nbsp;&nbsp;&nbsp;&nbsp;T::<a class=\"associatedtype\" href=\"scale_info/form/trait.Form.html#associatedtype.String\" title=\"type scale_info::form::Form::String\">String</a>: Encode,<br>&nbsp;&nbsp;&nbsp;&nbsp;T::<a class=\"associatedtype\" href=\"scale_info/form/trait.Form.html#associatedtype.String\" title=\"type scale_info::form::Form::String\">String</a>: Encode,<br>&nbsp;&nbsp;&nbsp;&nbsp;<a class=\"enum\" href=\"https://doc.rust-lang.org/nightly/core/option/enum.Option.html\" title=\"enum core::option::Option\">Option</a>&lt;T::<a class=\"associatedtype\" href=\"scale_info/form/trait.Form.html#associatedtype.Type\" title=\"type scale_info::form::Form::Type\">Type</a>&gt;: Encode,<br>&nbsp;&nbsp;&nbsp;&nbsp;<a class=\"enum\" href=\"https://doc.rust-lang.org/nightly/core/option/enum.Option.html\" title=\"enum core::option::Option\">Option</a>&lt;T::<a class=\"associatedtype\" href=\"scale_info/form/trait.Form.html#associatedtype.Type\" title=\"type scale_info::form::Form::Type\">Type</a>&gt;: Encode,&nbsp;</span>",
     synthetic |-> FALSE,
     types |-> <<<<"scale_info", "ty", "TypeParameter">>>>],
    [text |-> "impl&lt;T:&nbsp;<a class=\"trait\" href=\"scale_info/form/trait.Form.html\" title=\"trait scale_info::form::Form\">Form</a>&gt; Encode for <a class=\"enum\" href=\"scale_info/enum.TypeDef.html\" title=\"enum scale_info::TypeDef\">TypeDef</a>&lt;T&gt; <span class=\"where fmt-newline\">where<br>&nbsp;&nbsp;&nbsp;&nbsp;<a class=\"struct\" href=\"scale_info/struct.TypeDefComposite.html\" title=\"struct scale_info::TypeDefComposite\">TypeDefComposite</a>&lt;T&gt;: Encode,<br>&nbsp;&nbsp;&nbsp;&nbsp;<a class=\"struct\" href=\"scale_info/struct.TypeDefComposite.html\" title=\"struct scale_info::TypeDefComposite\">TypeDefComposite</a>&lt;T&gt;: Encode,<br>&nbsp;&nbsp;&nbsp;&nbsp;<a class=\"struct\" href=\"scale_info/struct.TypeDefVariant.html\" title=\"struct scale_info::TypeDefVariant\">TypeDefVariant</a>&lt;T&gt;: Encode,<br>&nbsp;&nbsp;&nbsp;&nbsp;<a class=\"struct\" href=\"scale_info/struct.TypeDefVariant.html\" title=\"struct scale_info::TypeDefVariant\">TypeDefVariant</a>&lt;T&gt;: Encode,<br>&nbsp;&nbsp;&nbsp;&nbsp;<a class=\"struct\" href=\"scale_info/struct.TypeDefSequence.html\" title=\"struct scale_info::TypeDefSequence\">TypeDefSequence</a>&lt;T&gt;: Encode,<br>&nbsp;&nbsp;&nbsp;&nbsp;<a class=\"struct\" href=\"scale_info/struct.TypeDefSequence.html\" title=\"struct scale_info::TypeDefSequence\">TypeDefSequence</a>&lt;T&gt;: Encode,<br>&nbsp;&nbsp;&nbsp;&nbsp;<a class=\"struct\" href=\"scale_info/struct.TypeDefArray.html\" title=\"struct scale_info::TypeDefArray\">TypeDefArray</a>&lt;T&gt;: Encode,<br>&nbsp;&nbsp;&nbsp;&nbsp;<a class=\"struct\" href=\"scale_info/struct.TypeDefArray.html\" title=\"struct scale_info::TypeDefArray\">TypeDefArray</a>&lt;T&gt;: Encode,<br>&nbsp;&nbsp;&nbsp;&nbsp;<a class=\"struct\" href=\"scale_info/struct.TypeDefTuple.html\" title=\"struct scale_info::TypeDefTuple\">TypeDefTuple</a>&lt;T&gt;: Encode,<br>&nbsp;&nbsp;&nbsp;&nbsp;<a class=\"struct\" href=\"scale_info/struct.TypeDefTuple.html\" title=\"struct scale_info::TypeDefTuple\">TypeDefTuple</a>&lt;T&gt;: Encode,<br>&nbsp;&nbsp;&nbsp;&nbsp;<a class=\"struct\" href=\"scale_info/struct.TypeDefCompact.html\" title=\"struct scale_info::TypeDefCompact\">TypeDefCompact</a>&lt;T&gt;: Encode,<br>&nbsp;&nbsp;&nbsp;&nbsp;<a class=\"struct\" href=\"scale_info/struct.TypeDefCompact.html\" title=\"struct scale_info::TypeDefCompact\">TypeDefCompact</a>&lt;T&gt;: Encode,<br>&nbsp;&nbsp;&nbsp;&nbsp;<a class=\"struct\" href=\"scale_info/struct.TypeDefBitSequence.html\" title=\"struct scale_info::TypeDefBitSequence\">TypeDefBitSequence</a>&lt;T&gt;: Encode,<br>&nbsp;&nbsp;&nbsp;&nbsp;<a class=\"struct\" href=\"scale_info/struct.TypeDefBitSequence.html\" title=\"struct scale_info::TypeDefBitSequence\">TypeDefBitSequence</a>&lt;T&gt;: Encode,&nbsp;</span>",
     synthetic |-> FALSE,
     types |-> <<<<"scale_info", "ty", "TypeDef">>>>],
    [text |-> "impl Encode for <a class=\"enum\" href=\"scale_info/enum.TypeDefPrimitive.html\" title=\"enum scale_info::TypeDefPrimitive\">TypeDefPrimitive</a>",
     synthetic |-> FALSE,
     types |-> <<<<"scale_info", "ty", "TypeDefPrimitive">>>>],
    [text |-> "impl&lt;T:&nbsp;<a class=\"trait\" href=\"scale_info/form/trait.Form.html\" title=\"trait scale_info::form::Form\">Form</a>&gt; Encode for <a class=\"struct\" href=\"scale_info/struct.TypeDefArray.html\" title=\"struct scale_info::TypeDefArray\">TypeDefArray</a>&lt;T&gt; <span class=\"where fmt-newline\">where<br>&nbsp;&nbsp;&nbsp;&nbsp;T::<a class=\"associatedtype\" href=\"scale_info/form/trait.Form.html#associatedtype.Type\" title=\"type scale_info::form::Form::Type\">Type</a>: Encode,<br>&nbsp;&nbsp;&nbsp;&nbsp;T::<a class=\"associatedtype\" href=\"scale_info/form/trait.Form.html#associatedtype.Type\" title=\"type scale_info::form::Form::Type\">Type</a>: Encode,&nbsp;</span>",
     synthetic |-> FALSE,
     types |-> <<<<"scale_info", "ty", "TypeDefArray">>>>],
    [text |-> "impl&lt;T:&nbsp;<a class=\"trait\" href=\"scale_info/form/trait.Form.html\" title=\"trait scale_info::form::Form\">Form</a>&gt; Encode for <a class=\"struct\" href=\"scale_info/struct.TypeDefTuple.html\" title=\"struct scale_info::TypeDefTuple\">TypeDefTuple</a>&lt;T&gt; <span class=\"where fmt-newline\">where<br>&nbsp;&nbsp;&nbsp;&nbsp;<a class=\"struct\" href=\"scale_info/prelude/vec/struct.Vec.html\" title=\"struct scale_info::prelude::vec::Vec\">Vec</a>&lt;T::<a class=\"associatedtype\" href=\"scale_info/form/trait.Form.html#associatedtype.Type\" title=\"type scale_info::form::Form::Type\">Type</a>&gt;: Encode,<br>&nbsp;&nbsp;&nbsp;&nbsp;<a class=\"struct\" href=\"scale_info/prelude/vec/struct.Vec.html\" title=\"struct scale_info::prelude::vec::Vec\">Vec</a>&lt;T::<a class=\"associatedtype\" href=\"scale_info/form/trait.Form.html#associatedtype.Type\" title=\"type scale_info::form::Form::Type\">Type</a>&gt;: Encode,&nbsp;</span>",
     synthetic |-> FALSE,
     types |-> <<<<"scale_info", "ty", "TypeDefTuple">>>>],
    [text |-> "impl&lt;T:&nbsp;<a class=\"trait\" href=\"scale_info/form/trait.Form.html\" title=\"trait scale_info::form::Form\">Form</a>&gt; Encode for <a class=\"struct\" href=\"scale_info/struct.TypeDefSequence.html\" title=\"struct scale_info::TypeDefSequence\">TypeDefSequence</a>&lt;T&gt; <span class=\"where fmt-newline\">where<br>&nbsp;&nbsp;&nbsp;&nbsp;T::<a class=\"associatedtype\" href=\"scale_info/form/trait.Form.html#associatedtype.Type\" title=\"type scale_info::form::Form::Type\">Type</a>: Encode,<br>&nbsp;&nbsp;&nbsp;&nbsp;T::<a class=\"associatedtype\" href=\"scale_info/form/trait.Form.html#associatedtype.Type\" title=\"type scale_info::form::Form::Type\">Type</a>: Encode,&nbsp;</span>",
     synthetic |-> FALSE,
     types |-> <<<<"scale_info", "ty", "TypeDefSequence">>>>],
    [text |-> "impl&lt;T:&nbsp;<a class=\"trait\" href=\"scale_info/form/trait.Form.html\" title=\"trait scale_info::form::Form\">Form</a>&gt; Encode for <a class=\"struct\" href=\"scale_info/struct.TypeDefCompact.html\" title=\"struct scale_info::TypeDefCompact\">TypeDefCompact</a>&lt;T&gt; <span class=\"where fmt-newline\">where<br>&nbsp;&nbsp;&nbsp;&nbsp;T::<a class=\"associatedtype\" href=\"scale_info/form/trait.Form.html#associatedtype.Type\" title=\"type scale_info::form::Form::Type\">Type</a>: Encode,<br>&nbsp;&nbsp;&nbsp;&nbsp;T::<a class=\"associatedtype\" href=\"scale_info/form/trait.Form.html#associatedtype.Type\" title=\"type scale_info::form::Form::Type\">Type</a>: Encode,&nbsp;</span>",
     synthetic |-> FALSE,
     types |-> <<<<"scale_info", "ty", "TypeDefCompact">>>>],
    [text |-> "impl&lt;T:&nbsp;<a class=\"trait\" href=\"scale_info/form/trait.Form.html\" title=\"trait scale_info::form::Form\">Form</a>&gt; Encode for <a class=\"struct\" href=\"scale_info/struct.TypeDefBitSequence.html\" title=\"struct scale_info::TypeDefBitSequence\">TypeDefBitSequence</a>&lt;T&gt; <span class=\"where fmt-newline\">where<br>&nbsp;&nbsp;&nbsp;&nbsp;T::<a class=\"associatedtype\" href=\"scale_info/form/trait.Form.html#associatedtype.Type\" title=\"type scale_info::form::Form::Type\">Type</a>: Encode,<br>&nbsp;&nbsp;&nbsp;&nbsp;T::<a class=\"associatedtype\" href=\"scale_info/form/trait.Form.html#associatedtype.Type\" title=\"type scale_info::form::Form::Type\">Type</a>: Encode,<br>&nbsp;&nbsp;&nbsp;&nbsp;T::<a class=\"associatedtype\" href=\"scale_info/form/trait.Form.html#associatedtype.Type\" title=\"type scale_info::form::Form::Type\">Type</a>: Encode,<br>&nbsp;&nbsp;&nbsp;&nbsp;T::<a class=\"associatedtype\" href=\"scale_info/form/trait.Form.html#associatedtype.Type\" title=\"type scale_info::form::Form::Type\">Type</a>: Encode,&nbsp;</span>",
     synthetic |-> FALSE,
     types |-> <<<<"scale_info", "ty", "TypeDefBitSequence">>>>]
  >>
\* The assignments as a generator that mixed up two crates would emit them:
\* the arrays of ink_env and scale_info under each other's key.
EmbeddedScriptSwapped ==
  << [key |-> "ink_env", value |-> scale_info_implementors],
     [key |-> "ink_primitives", value |-> ink_primitives_implementors],
     [key |-> "scale_info", value |-> ink_env_implementors] >>

\* Lines 2-4: the assignments of trait.Encode.js, in source order.
EmbeddedScript ==
  << [key |-> "ink_env", value |-> ink_env_implementors],
     [key |-> "ink_primitives", value |-> ink_primitives_implementors],
     [key |-> "scale_info", value |-> scale_info_implementors] >>

(***************************************************************************)
(* Registries of the same shape, for publish(R) with R arbitrary           *)
(***************************************************************************)
descriptor1 == [text |-> "impl Encode for A", synthetic |-> FALSE, types |-> << <<"modA", "A">> >>]
descriptor2 == [text |-> "impl Encode for B", synthetic |-> TRUE, types |-> << <<"modB", "B">> >>]

\* Descriptor arrays, the empty one (which breaks the data invariant) included.
DescriptorLists == { <<>>, <<descriptor1>>, <<descriptor1, descriptor2>> }

ModuleNames == <<"modA", "modB">>

\* Scripts of the shape the generator emits: one assignment per module name,
\* module names in increasing order, any subset of ModuleNames.
RECURSIVE ScriptsFrom(_)
ScriptsFrom(i) ==
  IF i > Len(ModuleNames) THEN { <<>> }
  ELSE LET rest == ScriptsFrom(i + 1)
       IN rest \cup { <<[key |-> ModuleNames[i], value |-> l]>> \o s :
                        l \in DescriptorLists, s \in rest }

Scripts == ScriptsFrom(1)

\* The registry a script builds: load() as a function of the script.
RECURSIVE RegistryOf(_)
RegistryOf(s) ==
  IF s = <<>> THEN EmptyObject
  ELSE SetProperty(RegistryOf(SubSeq(s, 1, Len(s) - 1)), s[Len(s)].key, s[Len(s)].value)

(***************************************************************************)
(* Initial state: the page before any loader script has run                *)
(***************************************************************************)
Init ==
  /\ pc = "idle"
  /\ script = <<>>
  /\ next = 1
  /\ implementors = Undefined
  /\ heap = <<>>
  /\ window_register_implementors \in HookValues
  /\ window_pending_implementors \in PendingValues
  /\ hookLog = <<>>
  /\ windowWrites = <<>>
  /\ error = "none"
  /\ runs = 0
  /\ hostReads = <<>>

(***************************************************************************)
(* The loader                                                              *)
(***************************************************************************)
\* The script element is evaluated: the IIFE is entered with s as its body.
\* var implementors is hoisted and starts undefined.
Enter(s) ==
  /\ pc \in {"idle", "done", "threw"}
  /\ runs < MaxRuns
  /\ pc' = "construct"
  /\ script' = s
  /\ next' = 1
  /\ implementors' = Undefined
  /\ error' = "none"
  /\ runs' = runs + 1
  /\ UNCHANGED <<hostReads, heap, window_register_implementors, window_pending_implementors,
                 hookLog, windowWrites>>

\* trait.Encode.js is loaded.
LoadEmbedded == Enter(EmbeddedScript)

\* A loader of the same shape with any registry is loaded.
LoadAny == \E s \in Scripts : Enter(s)

\* Construct with the hand-off moved to the declaration:
\* var implementors = window.pending_implementors = {};
ConstructAndBuffer ==
  /\ pc = "construct"
  /\ heap' = Append(heap, EmptyObject)
  /\ implementors' = Object(Len(heap) + 1)
  /\ window_pending_implementors' = Object(Len(heap) + 1)
  /\ windowWrites' = Append(windowWrites, [run |-> runs,
                                           name |-> "pending_implementors",
                                           value |-> Object(Len(heap) + 1)])
  /\ pc' = IF Len(script) = 0 THEN "publish" ELSE "assign"
  /\ UNCHANGED <<hostReads, script, next, window_register_implementors, hookLog, error, runs>>

\* Construct with the var keyword lost: implementors = {}; in sloppy mode the
\* assignment creates the global window.implementors.
ConstructWithoutVar ==
  /\ pc = "construct"
  /\ heap' = Append(heap, EmptyObject)
  /\ implementors' = Object(Len(heap) + 1)
  /\ windowWrites' = Append(windowWrites, [run |-> runs,
                                           name |-> "implementors",
                                           value |-> Object(Len(heap) + 1)])
  /\ pc' = IF Len(script) = 0 THEN "publish" ELSE "assign"
  /\ UNCHANGED <<hostReads, script, next, window_register_implementors,
                 window_pending_implementors, hookLog, error, runs>>

\* Line 1: var implementors = {};
Construct ==
  /\ pc = "construct"
  /\ heap' = Append(heap, EmptyObject)
  /\ implementors' = Object(Len(heap) + 1)
  /\ pc' = IF Len(script) = 0 THEN "publish" ELSE "assign"
  /\ UNCHANGED <<hostReads, script, next, window_register_implementors, window_pending_implementors,
                 hookLog, windowWrites, error, runs>>

\* Assign with the else-branch of line 5 emitted after every assignment.
AssignAndBuffer ==
  /\ pc = "assign"
  /\ heap' = [heap EXCEPT ![implementors.ref] = SetProperty(@, script[next].key, script[next].value)]
  /\ next' = next + 1
  /\ pc' = IF next = Len(script) THEN "publish" ELSE "assign"
  /\ IF Truthy(window_register_implementors)
       THEN UNCHANGED <<window_pending_implementors, windowWrites>>
       ELSE /\ window_pending_implementors' = implementors
            /\ windowWrites' = Append(windowWrites, [run |-> runs,
                                                     name |-> "pending_implementors",
                                                     value |-> implementors])
  /\ UNCHANGED <<hostReads, script, implementors, window_register_implementors, hookLog, error, runs>>

\* Lines 2-4: implementors[key] = [...];
Assign ==
  /\ pc = "assign"
  /\ heap' = [heap EXCEPT ![implementors.ref] = SetProperty(@, script[next].key, script[next].value)]
  /\ next' = next + 1
  /\ pc' = IF next = Len(script) THEN "publish" ELSE "assign"
  /\ UNCHANGED <<hostReads, script, implementors, window_register_implementors,
                 window_pending_implementors, hookLog, windowWrites, error, runs>>

\* InvokeHook with the else keyword lost: the hook is called and the pending
\* slot is written as well.
InvokeHookAndBuffer ==
  /\ hookLog' = Append(hookLog, [run |-> runs,
                                 args |-> <<implementors>>,
                                 seen |-> heap[implementors.ref]])
  /\ window_pending_implementors' = implementors
  /\ windowWrites' = Append(windowWrites, [run |-> runs,
                                           name |-> "pending_implementors",
                                           value |-> implementors])
  /\ IF window_register_implementors = ThrowingFunction
       THEN pc' = "threw" /\ error' = "HookError"
       ELSE pc' = "done" /\ error' = "none"
  /\ UNCHANGED <<heap, window_register_implementors>>

\* InvokeHook with the argument lost: window.register_implementors();
InvokeHookNoArgument ==
  /\ hookLog' = Append(hookLog, [run |-> runs,
                                 args |-> <<>>,
                                 seen |-> EmptyObject])
  /\ IF window_register_implementors = ThrowingFunction
       THEN pc' = "threw" /\ error' = "HookError"
       ELSE pc' = "done" /\ error' = "none"
  /\ UNCHANGED <<heap, window_register_implementors, window_pending_implementors,
                 windowWrites>>

\* Line 5, then-branch with a callable hook:
\* window.register_implementors(implementors); the function's result is
\* discarded, an exception it throws leaves the IIFE.
InvokeHook ==
  /\ hookLog' = Append(hookLog, [run |-> runs,
                                 args |-> <<implementors>>,
                                 seen |-> heap[implementors.ref]])
  /\ IF window_register_implementors = ThrowingFunction
       THEN pc' = "threw" /\ error' = "HookError"
       ELSE pc' = "done" /\ error' = "none"
  /\ UNCHANGED <<heap, window_register_implementors, window_pending_implementors,
                 windowWrites>>

\* Line 5, then-branch with a truthy value that is not callable: the call
\* expression throws TypeError before anything is invoked.
CallNonCallable ==
  /\ pc' = "threw"
  /\ error' = "TypeError"
  /\ UNCHANGED <<heap, window_register_implementors, window_pending_implementors,
                 hookLog, windowWrites>>

\* WritePending that keeps what the slot already holds:
\* window.pending_implementors = window.pending_implementors || implementors;
WritePendingKeepFirst ==
  /\ window_pending_implementors' =
       IF Truthy(window_pending_implementors) THEN window_pending_implementors
       ELSE implementors
  /\ windowWrites' = Append(windowWrites, [run |-> runs,
                                           name |-> "pending_implementors",
                                           value |-> window_pending_implementors'])
  /\ pc' = "done"
  /\ error' = "none"
  /\ UNCHANGED <<heap, window_register_implementors, hookLog>>

\* WritePending into the wrong global: window.register_implementors = implementors;
WritePendingWrongSlot ==
  /\ window_register_implementors' = implementors
  /\ windowWrites' = Append(windowWrites, [run |-> runs,
                                           name |-> "register_implementors",
                                           value |-> implementors])
  /\ pc' = "done"
  /\ error' = "none"
  /\ UNCHANGED <<heap, window_pending_implementors, hookLog>>

\* WritePending that merges into a registry already pending:
\* Object.assign(window.pending_implementors, implementors) when the slot holds
\* an object.
WritePendingMerged ==
  /\ IF window_pending_implementors.kind = "object"
       THEN /\ heap' = [heap EXCEPT ![window_pending_implementors.ref] =
                          [k \in (DOMAIN @) \cup (DOMAIN heap[implementors.ref]) |->
                             IF k \in DOMAIN heap[implementors.ref]
                               THEN heap[implementors.ref][k] ELSE @[k]]]
            /\ window_pending_implementors' = window_pending_implementors
       ELSE /\ heap' = heap
            /\ window_pending_implementors' = implementors
  /\ windowWrites' = Append(windowWrites, [run |-> runs,
                                           name |-> "pending_implementors",
                                           value |-> window_pending_implementors'])
  /\ pc' = "done"
  /\ error' = "none"
  /\ UNCHANGED <<window_register_implementors, hookLog>>

\* WritePending that validates first: entries with an empty descriptor array
\* are deleted from the registry before it is stored.
WritePendingValidated ==
  /\ heap' = [heap EXCEPT ![implementors.ref] =
                [k \in {m \in DOMAIN @ : @[m] # <<>>} |-> @[k]]]
  /\ window_pending_implementors' = implementors
  /\ windowWrites' = Append(windowWrites, [run |-> runs,
                                           name |-> "pending_implementors",
                                           value |-> implementors])
  /\ pc' = "done"
  /\ error' = "none"
  /\ UNCHANGED <<window_register_implementors, hookLog>>

\* WritePending that reports the missing hook after buffering:
\* window.pending_implementors = implementors; throw new Error(...);
WritePendingThenThrow ==
  /\ window_pending_implementors' = implementors
  /\ windowWrites' = Append(windowWrites, [run |-> runs,
                                           name |-> "pending_implementors",
                                           value |-> implementors])
  /\ pc' = "threw"
  /\ error' = "Error"
  /\ UNCHANGED <<heap, window_register_implementors, hookLog>>

\* Line 5, else-branch: window.pending_implementors = implementors;
WritePending ==
  /\ window_pending_implementors' = implementors
  /\ windowWrites' = Append(windowWrites, [run |-> runs,
                                           name |-> "pending_implementors",
                                           value |-> implementors])
  /\ pc' = "done"
  /\ error' = "none"
  /\ UNCHANGED <<heap, window_register_implementors, hookLog>>

\* Line 5: if (window.register_implementors) {...} else {...}
Publish ==
  /\ pc = "publish"
  /\ IF Truthy(window_register_implementors)
       THEN IF Callable(window_register_implementors) THEN InvokeHook ELSE CallNonCallable
       ELSE WritePending
  /\ UNCHANGED <<hostReads, script, next, implementors, runs>>

(***************************************************************************)
(* The host                                                                *)
(***************************************************************************)
\* The rendering host initializes after the page has started: it installs its
\* hook in window.register_implementors and reads window.pending_implementors
\* to pick up what was buffered. It does so once, and not while a loader runs.
HostInitialize ==
  /\ pc \in {"idle", "done", "threw"}
  /\ ~Callable(window_register_implementors)
  /\ window_register_implementors' = Function
  /\ hostReads' = Append(hostReads, [run |-> runs, value |-> window_pending_implementors])
  /\ UNCHANGED <<pc, script, next, implementors, heap, window_pending_implementors,
                 hookLog, windowWrites, error, runs>>

\* trait.Encode.js in a page.
Next == LoadEmbedded \/ Construct \/ Assign \/ Publish \/ HostInitialize

Spec == Init /\ [][Next]_vars

\* Loaders of the same shape, any registry: publish(R) for every R.
NextAny == LoadAny \/ Construct \/ Assign \/ Publish \/ HostInitialize

SpecAny == Init /\ [][NextAny]_vars

(***************************************************************************)
(* Properties                                                              *)
(***************************************************************************)
Last(s) == s[Len(s)]

\* The loader is executing (between entry and the end of line 5).
Running == pc \in {"construct", "assign", "publish"}

\* The last execution has ended, normally or by an exception.
Finished == pc \in {"done", "threw"}

\* The hook is installed: the slot holds a function.
Installed == Callable(window_register_implementors)

\* The hook is absent: the slot holds nothing truthy.
Absent == ~Truthy(window_register_implementors)

\* The step invokes the hook once / not at all.
Invokes == Len(hookLog') = Len(hookLog) + 1 /\ SubSeq(hookLog', 1, Len(hookLog)) = hookLog
InvokesNot == hookLog' = hookLog

\* The step assigns the pending slot once / not at all.
WritesSlot ==
  /\ Len(windowWrites') = Len(windowWrites) + 1
  /\ SubSeq(windowWrites', 1, Len(windowWrites)) = windowWrites
  /\ Last(windowWrites').name = "pending_implementors"
WritesNot ==
  /\ windowWrites' = windowWrites
  /\ window_pending_implementors' = window_pending_implementors

\* C1: with the hook installed or absent, the publish step does exactly one of:
\* invoke window.register_implementors, assign window.pending_implementors.
C1_ExactlyOneSideEffect ==
  [][(pc = "publish" /\ (Installed \/ Absent))
       => ((Invokes /\ WritesNot) \/ (InvokesNot /\ WritesSlot))]_vars

C1_Witness ==
  /\ pc = "done"
  /\ window_register_implementors = Function
  /\ Len(hookLog) = 1
  /\ windowWrites = <<>>
  /\ window_pending_implementors = Stale

\* C2: with the hook installed when publish(R) runs, the step that ends the
\* loader invokes the hook exactly once, with one argument, the registry R.
C2_HookReceivesRegistryOnce ==
  [][(pc = "publish" /\ Installed)
       => /\ Invokes
          /\ Finished'
          /\ Last(hookLog').args = <<implementors>>
          /\ Last(hookLog').seen = RegistryOf(script)
          /\ heap'[implementors.ref] = RegistryOf(script)]_vars

\* The scenario of the spec: hook pre-installed, registry {"modA": [descriptor1]}.
C2_Witness ==
  /\ pc = "done"
  /\ window_register_implementors = Function
  /\ runs = 1
  /\ Len(hookLog) = 1
  /\ hookLog[1].args = <<implementors>>
  /\ hookLog[1].seen = [k \in {"modA"} |-> <<descriptor1>>]

\* C3: with the hook absent when publish(R) runs, afterwards the pending slot
\* holds R and the loader has not invoked the hook.
C3_PendingHoldsRegistry ==
  [][(pc = "publish" /\ Absent)
       => /\ InvokesNot
          /\ pc' = "done"
          /\ window_pending_implementors' = implementors
          /\ window_pending_implementors'.kind = "object"
          /\ heap'[window_pending_implementors'.ref] = RegistryOf(script)]_vars

C3_Witness ==
  /\ pc = "done"
  /\ window_register_implementors = Undefined
  /\ runs = 1
  /\ hookLog = <<>>
  /\ window_pending_implementors = Object(1)
  /\ heap[1] = [k \in {"modA", "modB"} |-> <<descriptor1, descriptor2>>]

\* The state of the loader as the host can tell it: the registry has been
\* delivered once the hook has been invoked or the pending slot holds a registry.
LoaderState ==
  IF hookLog # <<>> \/ window_pending_implementors.kind = "object"
    THEN "PUBLISHED" ELSE "UNPUBLISHED"

\* C4: the loader starts UNPUBLISHED; its state changes only from UNPUBLISHED
\* to PUBLISHED, only in the publish step; PUBLISHED is never left.
C4_OneWayTransition ==
  /\ LoaderState = "UNPUBLISHED"
  /\ [][/\ LoaderState = "PUBLISHED" => LoaderState' = "PUBLISHED"
        /\ LoaderState' # LoaderState
             => (LoaderState = "UNPUBLISHED" /\ LoaderState' = "PUBLISHED" /\ pc = "publish")]_vars

\* A second execution has started after the first one published.
C4_Witness ==
  /\ LoaderState = "PUBLISHED"
  /\ runs = 2
  /\ pc = "assign"
  /\ window_register_implementors = Undefined

\* C5 as stated: no execution of the loader raises an error, whatever the
\* hook slot holds.
C5_NeverThrows == pc # "threw"

\* C5, amended: with a hook slot that holds undefined, null or a function that
\* returns normally, the publish step completes without an error.
C5_NoErrorForAbsentOrReturningHook ==
  [][(pc = "publish" /\ window_register_implementors \in {Undefined, Null, Function})
       => (pc' = "done" /\ error' = "none")]_vars

C5_Witness ==
  /\ pc = "done"
  /\ error = "none"
  /\ window_register_implementors = Null
  /\ window_pending_implementors.kind = "object"

\* C6: the loader never assigns window.register_implementors; it assigns
\* window.pending_implementors only in the publish step, once; a process in
\* which the loader is executed once has at most one assignment, to the slot.
C6_AtMostOneWrite ==
  /\ [][Running =>
          /\ window_register_implementors' = window_register_implementors
          /\ window_pending_implementors' # window_pending_implementors
               => (pc = "publish" /\ WritesSlot)
          /\ windowWrites' # windowWrites => (pc = "publish" /\ WritesSlot)]_vars
  /\ [](runs <= 1 =>
          /\ Len(windowWrites) <= 1
          /\ \A i \in 1..Len(windowWrites) : windowWrites[i].name = "pending_implementors")

C6_Witness ==
  /\ runs = 1
  /\ pc = "done"
  /\ Len(windowWrites) = 1
  /\ window_pending_implementors = Object(1)
  /\ DOMAIN heap[1] = {"ink_env", "ink_primitives", "scale_info"}

\* The hook was installed before the first execution: the host did not
\* initialize after an execution had started.
InstalledThroughout ==
  Installed /\ \A k \in 1..Len(hostReads) : hostReads[k].run = 0

\* C7: after two or more executions with the hook absent the pending slot
\* holds the registry of the last one alone; with the hook installed every
\* execution has invoked the hook once, in execution order.
C7_NotIdempotent ==
  (Finished /\ runs >= 2) =>
    /\ Absent =>
         /\ window_pending_implementors = implementors
         /\ implementors = Object(runs)
         /\ heap[runs] = RegistryOf(script)
         /\ Len(windowWrites) = runs
    /\ InstalledThroughout =>
         /\ Len(hookLog) = runs
         /\ \A i \in 1..runs :
              /\ hookLog[i].run = i
              /\ hookLog[i].args = <<Object(i)>>
              /\ hookLog[i].seen = heap[i]
         /\ heap[runs] = RegistryOf(script)

\* Two executions with different registries, hook absent: the slot holds the second.
C7_Witness ==
  /\ runs = 2
  /\ pc = "done"
  /\ window_register_implementors = Undefined
  /\ heap[1] = [k \in {"modA"} |-> <<descriptor1>>]
  /\ heap[2] = [k \in {"modB"} |-> <<descriptor1, descriptor2>>]
  /\ window_pending_implementors = Object(2)

\* A key with an empty descriptor array breaks the data invariant.
Malformed(registry) == \E k \in DOMAIN registry : registry[k] = <<>>

\* C8: with the hook absent, publish stores the registry as it is, malformed
\* or not, and does not fail.
C8_StoresAsIs ==
  [][(pc = "publish" /\ Absent)
       => /\ pc' = "done"
          /\ error' = "none"
          /\ window_pending_implementors' = implementors
          /\ heap'[implementors.ref] = heap[implementors.ref]]_vars

\* The scenario of the spec: hook absent, registry {"modB": []}.
C8_Witness ==
  /\ pc = "done"
  /\ error = "none"
  /\ Absent
  /\ window_pending_implementors.kind = "object"
  /\ heap[window_pending_implementors.ref] = [k \in {"modB"} |-> <<>>]
  /\ Malformed(heap[window_pending_implementors.ref])

\* The data invariant of a registry.
DataInvariant(registry) ==
  \A k \in DOMAIN registry :
    /\ k # ""
    /\ \A i \in 1..Len(registry[k]) : Len(registry[k][i].types) >= 1

\* C9: the registry load() has built satisfies the data invariant.
C9_LoadedRegistryWellFormed ==
  (pc = "publish" \/ Finished) => DataInvariant(heap[implementors.ref])

C9_Witness ==
  /\ pc = "publish"
  /\ DOMAIN heap[implementors.ref] = {"ink_env", "ink_primitives", "scale_info"}
  /\ Len(heap[implementors.ref]["scale_info"]) > 0

\* The module names the script assigns.
KeysOf(s) == {s[i].key : i \in 1..Len(s)}

\* The registries handed to the host so far.
HandedOff ==
  {hookLog[i].args[j].ref : i \in 1..Len(hookLog), j \in {1}}
    \cup {windowWrites[i].value.ref : i \in 1..Len(windowWrites)}

\* C10: each execution builds one registry; a registry the hook received or
\* the pending slot holds has every module entry; the loader does not modify
\* a registry it has handed off.
C10_ConstructionPrecedesHandoff ==
  /\ [](/\ (pc \in {"assign", "publish"} \/ Finished) => Len(heap) = runs
        /\ \A i \in 1..Len(hookLog) : DOMAIN hookLog[i].seen = KeysOf(EmbeddedScript)
        /\ window_pending_implementors.kind = "object"
             => DOMAIN heap[window_pending_implementors.ref] = KeysOf(EmbeddedScript))
  /\ [][\A r \in HandedOff : heap'[r] = heap[r]]_vars

C10_Witness ==
  /\ runs = 2
  /\ pc = "assign"
  /\ next = 2
  /\ window_pending_implementors = Object(1)
  /\ DOMAIN heap[1] = KeysOf(EmbeddedScript)
  /\ DOMAIN heap[2] = {"ink_env"}

\* The assignments of the pending slot made by executions 1..r.
WritesUpTo(r) == SelectSeq(windowWrites, LAMBDA w : w.run <= r)

\* C11: an execution that buffered its registry never invokes the hook, also
\* when the host installs it afterwards; the buffered registry stays in the
\* pending slot, unmodified, until a later execution assigns the slot, and it
\* is what the host reads; the execution ends without an error, whether or
\* not the host ever initializes.
C11_BufferedUntilHostReads ==
  /\ [](\A i \in 1..Len(windowWrites) : \A j \in 1..Len(hookLog) :
          hookLog[j].run # windowWrites[i].run)
  /\ [](\A k \in 1..Len(hostReads) :
          WritesUpTo(hostReads[k].run) # <<>>
            => /\ hostReads[k].value = Last(WritesUpTo(hostReads[k].run)).value
               /\ hostReads[k].value.kind = "object")
  /\ []((Finished /\ windowWrites # <<>> /\ Last(windowWrites).run = runs)
          => (pc = "done" /\ error = "none"))
  /\ [][window_pending_implementors.kind = "object"
          => /\ heap'[window_pending_implementors.ref] = heap[window_pending_implementors.ref]
             /\ window_pending_implementors' # window_pending_implementors
                  => (pc = "publish" /\ Absent /\ WritesSlot)]_vars

\* The loader ran with the hook absent, then the host initialized: it read
\* the buffered registry, and the loader has made no call.
C11_Witness ==
  /\ runs = 1
  /\ pc = "done"
  /\ error = "none"
  /\ window_register_implementors = Function
  /\ hookLog = <<>>
  /\ hostReads = <<[run |-> 1, value |-> Object(1)]>>
  /\ window_pending_implementors = Object(1)
  /\ heap[1] = [k \in {"modA"} |-> <<descriptor1>>]

\* C12: no step of the loader changes window.register_implementors; with the
\* hook installed the publish step leaves window.pending_implementors as it
\* was; before the publish step the loader assigns no global; every
\* assignment to a property of window is to pending_implementors (the
\* variable implementors is local).
C12_Frame ==
  /\ [][Running =>
          /\ window_register_implementors' = window_register_implementors
          /\ (pc = "publish" /\ Installed) =>
                /\ window_pending_implementors' = window_pending_implementors
                /\ windowWrites' = windowWrites
          /\ pc # "publish" =>
                /\ window_pending_implementors' = window_pending_implementors
                /\ windowWrites' = windowWrites]_vars
  /\ [](\A i \in 1..Len(windowWrites) : windowWrites[i].name = "pending_implementors")

\* Two executions with the hook installed: a value left in the slot is still there.
C12_Witness ==
  /\ runs = 2
  /\ pc = "done"
  /\ window_register_implementors = Function
  /\ Len(hookLog) = 2
  /\ window_pending_implementors = Stale
  /\ windowWrites = <<>>

\* The registries delivered so far: to the hook, or into the pending slot.
Delivered ==
  {hookLog[i].seen : i \in 1..Len(hookLog)}
    \cup {heap[windowWrites[i].value.ref] : i \in 1..Len(windowWrites)}

\* The type path begins with key followed by "::": its first segment is key
\* and a further segment follows.
BeginsWith(path, key) == Len(path) >= 2 /\ path[1] = key

\* C13: every registry this file delivers has exactly the keys "ink_env",
\* "ink_primitives" and "scale_info", with 8, 1 and 16 descriptors; every
\* descriptor has synthetic = false and exactly one type path, which begins
\* with the key it is listed under followed by "::".
C13_EmbeddedRegistryShape ==
  \A registry \in Delivered :
    /\ DOMAIN registry = {"ink_env", "ink_primitives", "scale_info"}
    /\ Len(registry["ink_env"]) = 8
    /\ Len(registry["ink_primitives"]) = 1
    /\ Len(registry["scale_info"]) = 16
    /\ \A k \in DOMAIN registry : \A i \in 1..Len(registry[k]) :
         /\ registry[k][i].synthetic = FALSE
         /\ Len(registry[k][i].types) = 1
         /\ BeginsWith(registry[k][i].types[1], k)

\* The hook has received the registry of the file, and so has the pending
\* slot in an earlier execution, before the host initialized.
C13_Witness ==
  /\ runs = 2
  /\ pc = "done"
  /\ Len(hookLog) = 1
  /\ Len(windowWrites) = 1
  /\ Cardinality(Delivered) = 1
  /\ Len(hookLog[1].seen["scale_info"]) = 16
  /\ hookLog[1].seen["ink_primitives"][1].types = << <<"ink_primitives", "key", "Key">> >>

====
